---- MODULE Spec2Model ----
(***************************************************************************)
(* Model of CategoryProduction (category_production.py): construction of   *)
(* the dataset (participant clean-up, collapse over category-response      *)
(* pairs, reaction-time joins, participant hit-rate columns), the on-disk  *)
(* cache with its version file, and the query methods.                     *)
(*                                                                         *)
(* A string is a sequence of one-character strings, so that strip, lower,  *)
(* split and the CSV round trip are computed and not assumed.              *)
(***************************************************************************)
EXTENDS Integers, Sequences, FiniteSets, TLC

---------------------------------------------------------------------------
(* Bounds of the model *)

\* a source file holds at most MaxRows trial rows
MaxRows == 2
\* minimum_production_frequency is drawn from 1..MaxMinFreq in the data runs
MaxMinFreq == 2
\* HEAD moves through revisions 1..MaxHead
MaxHead == 2

---------------------------------------------------------------------------
(* Strings *)

\* the characters of the model, in code-point order
Chars == <<"\t", " ", "F", "N", "X", "a", "f", "g", "n", "x", "y">>

Ord(c) == CHOOSE i \in 1..Len(Chars) : Chars[i] = c

\* what str.strip() removes
IsSpace(c) == c \in {"\t", " "}

LowerChar(c) ==
  CASE c = "F" -> "f"
    [] c = "N" -> "n"
    [] c = "X" -> "x"
    [] OTHER -> c

\* the missing value (NaN) of a string column
NaN == <<"NaN">>

IsNaN(s) == s = NaN

\* Series.str.lower()
str_lower(s) == IF IsNaN(s) THEN s ELSE [i \in 1..Len(s) |-> LowerChar(s[i])]

RECURSIVE lstrip(_)
lstrip(s) == IF s # <<>> /\ IsSpace(Head(s)) THEN lstrip(Tail(s)) ELSE s

RECURSIVE rstrip(_)
rstrip(s) ==
  IF s # <<>> /\ IsSpace(s[Len(s)]) THEN rstrip(SubSeq(s, 1, Len(s) - 1)) ELSE s

\* Series.str.strip()
str_strip(s) == IF IsNaN(s) THEN s ELSE rstrip(lstrip(s))

\* " " in s
HasSpace(s) == \E i \in 1..Len(s) : s[i] = " "

\* x.split(" "): every single space separates, so "a  b" has an empty token
RECURSIVE _default_word_tokenise(_)
_default_word_tokenise(x) ==
  IF ~HasSpace(x)
    THEN <<x>>
    ELSE LET i == CHOOSE k \in 1..Len(x) :
                      x[k] = " " /\ \A j \in 1..(k - 1) : x[j] # " "
         IN  <<SubSeq(x, 1, i - 1)>> \o _default_word_tokenise(SubSeq(x, i + 1, Len(x)))

ignored_words ==
  { <<"a">>, <<"t", "h", "e">>, <<"o", "f">>, <<"a", "n", "d">>, <<"'", "s">>, <<".">> }

\* s < t in Python's string order
RECURSIVE StrLess(_, _)
StrLess(s, t) ==
  IF t = <<>> THEN FALSE
  ELSE IF s = <<>> THEN TRUE
  ELSE IF Head(s) = Head(t) THEN StrLess(Tail(s), Tail(t))
  ELSE Ord(Head(s)) < Ord(Head(t))

---------------------------------------------------------------------------
(* The source files *)

\* One trial row of the main data file, as written in the file.  Rank is the
\* position of the response in the list the participant gave for the cue, so
\* the rows of one participant for one cue have ranks 1, 2, ...
RawRow(c, r, p, S) ==
  [Category |-> c, Response |-> r, Participant |-> p,
   Rank |-> 1 + Cardinality({x \in S : x.Participant = p /\ x.Category = c})]

\* the sets of at most n trial rows over the given cues, responses and
\* participants
RECURSIVE RawRowSets(_, _, _, _)
RawRowSets(n, cats, resps, ppts) ==
  IF n = 0
    THEN {{}}
    ELSE LET prev == RawRowSets(n - 1, cats, resps, ppts)
         IN  prev \cup { S \cup {RawRow(c, r, p, S)} :
                           S \in prev, c \in cats, r \in resps, p \in ppts }

\* the participants of a file are numbered 1, 2, ...
ParticipantsNumbered(S) ==
  LET ids == {x.Participant : x \in S} IN ids = 1..Cardinality(ids)

\* the source files of at most n trial rows
Sources(n, cats, resps, ppts) ==
  {S \in RawRowSets(n, cats, resps, ppts) : ParticipantsNumbered(S)}

\* the order of (Category, Response, Participant) only
RowLess_without_rank(a, b) ==
  IF a.Category # b.Category THEN StrLess(a.Category, b.Category)
  ELSE IF a.Response # b.Response THEN StrLess(a.Response, b.Response)
  ELSE a.Participant < b.Participant

\* the order of (Category, Response, Participant, Rank), the sort key of
\* _process_participant_data
RowLess(a, b) ==
  IF a.Category # b.Category THEN StrLess(a.Category, b.Category)
  ELSE IF a.Response # b.Response THEN StrLess(a.Response, b.Response)
  ELSE IF a.Participant # b.Participant THEN a.Participant < b.Participant
  ELSE a.Rank < b.Rank

\* the rows of a file in the order they are written: from the last to the
\* first of (Category, Response, Participant, Rank), so that no file with two
\* rows is sorted already
WrittenBefore(a, b) ==
  IF a.Category # b.Category THEN StrLess(b.Category, a.Category)
  ELSE IF a.Response # b.Response THEN StrLess(b.Response, a.Response)
  ELSE IF a.Participant # b.Participant THEN b.Participant < a.Participant
  ELSE b.Rank < a.Rank

RECURSIVE FileOrder(_)
FileOrder(S) ==
  IF S = {}
    THEN <<>>
    ELSE LET top == CHOOSE x \in S : \A y \in S \ {x} : WrittenBefore(x, y)
         IN  <<top>> \o FileOrder(S \ {top})

\* the sensorimotor version of a term, a column of the main data file: the
\* norms name a phrase by its last word, so that distinct responses can
\* share one sensorimotor term
Sensorimotor(s) ==
  LET words == _default_word_tokenise(s) IN words[Len(words)]

\* The pair a row belongs to
Normalise(s) == str_lower(str_strip(s))

SamePair(a, b) ==
  /\ Normalise(a.Category) = Normalise(b.Category)
  /\ Normalise(a.Response) = Normalise(b.Response)

\* ProdFreq column of the main data file: the number of participants who
\* gave the response to the category
ProductionFrequency(row, S) ==
  Cardinality({x.Participant : x \in {y \in S : SamePair(y, row)}})

RECURSIVE SumRanks(_)
SumRanks(S) ==
  IF S = {} THEN 0
  ELSE LET x == CHOOSE y \in S : TRUE IN x.Rank + SumRanks(S \ {x})

\* MeanRank column of the main data file, as <<sum, count>>
MeanRank(row, S) ==
  LET same == {y \in S : SamePair(y, row)} IN <<SumRanks(same), Cardinality(same)>>

\* The main data file: the trial rows with the columns that depend on the
\* category-response pair only
MainDataFile(S) ==
  LET rows == FileOrder(S)
  IN  [i \in 1..Len(rows) |->
         [Category             |-> rows[i].Category,
          Response             |-> rows[i].Response,
          Participant          |-> rows[i].Participant,
          Rank                 |-> rows[i].Rank,
          CategorySensorimotor |-> Sensorimotor(Normalise(rows[i].Category)),
          ResponseSensorimotor |-> Sensorimotor(Normalise(rows[i].Response)),
          ProductionFrequency  |-> ProductionFrequency(rows[i], S),
          MeanRank             |-> MeanRank(rows[i], S)]]

\* zscore_per_pt of the reaction-time file, by participant: inside the limit,
\* above it, below -limit
ZScore(p) == CASE p % 3 = 1 -> 0 [] p % 3 = 2 -> 4 [] OTHER -> -4

\* The reaction-time file: one row per first response (rank 1), with the
\* category and the response as the main file writes them
RtDataFile(S) ==
  LET rows == FileOrder({x \in S : x.Rank = 1})
  IN  [i \in 1..Len(rows) |->
         [Category      |-> rows[i].Category,
          Response      |-> rows[i].Response,
          RT            |-> rows[i].Participant,
          zscore_per_pt |-> ZScore(rows[i].Participant),
          NSyll         |-> <<Len(rows[i].Response)>>,
          PLD           |-> <<Len(rows[i].Response) + 1>>,
          CategoryRT    |-> <<Len(rows[i].Category)>>]]

---------------------------------------------------------------------------
(* Tables: a table is a sequence of rows, a row a function of column names *)

\* the missing value (NaN) of a numeric or boolean column; a value v of such
\* a column is <<v>>, and a mean is <<sum, count>>
Null == <<>>

\* the cells of a row in the given columns
Cells(row, columns) == [col \in columns |-> row[col]]

\* DataFrame.drop_duplicates(subset=..., keep='first'): a row stays when no
\* earlier row has its cells in the subset
drop_duplicates(table, subset) ==
  LET keep == {i \in 1..Len(table) :
                 \A j \in 1..(i - 1) : Cells(table[j], subset) # Cells(table[i], subset)}
  IN  [k \in 1..Cardinality(keep) |->
         table[CHOOSE i \in keep : Cardinality({j \in keep : j <= i}) = k]]

\* sort_values(by=[Category, Response, Participant, 'Rank']): a stable sort
RECURSIVE InsertRow(_, _)
InsertRow(sorted_rows, row) ==
  IF sorted_rows = <<>> THEN <<row>>
  ELSE IF RowLess(row, Head(sorted_rows)) THEN <<row>> \o sorted_rows
  ELSE <<Head(sorted_rows)>> \o InsertRow(Tail(sorted_rows), row)

RECURSIVE sort_values(_)
sort_values(table) ==
  IF table = <<>> THEN <<>>
  ELSE InsertRow(sort_values(SubSeq(table, 1, Len(table) - 1)), table[Len(table)])

RECURSIVE Concat(_)
Concat(tables) == IF tables = <<>> THEN <<>> ELSE Head(tables) \o Concat(Tail(tables))

\* left.merge(right, how="left", on=on): every row of the left table, once
\* per row of the right table with the same cells in the on-columns, and
\* once with missing values in the added columns when there is none
left_merge(left, right, on, added) ==
  Concat([i \in 1..Len(left) |->
            LET m == SelectSeq(right, LAMBDA r : Cells(r, on) = Cells(left[i], on))
            IN  IF m = <<>>
                  THEN <<[col \in added |-> Null] @@ left[i]>>
                  ELSE [j \in 1..Len(m) |-> Cells(m[j], added) @@ left[i]]])

RECURSIVE SumOf(_, _)
SumOf(table, col) ==
  IF table = <<>> THEN 0 ELSE Head(table)[col] + SumOf(Tail(table), col)

\* groupby_mean without the grouping: one row per row of the table
groupby_mean_ungrouped(table, by, col, as) ==
  [g \in 1..Len(table) |-> (as :> <<table[g][col], 1>>) @@ Cells(table[g], by)]

\* table[by + [col]].groupby(by).mean().reset_index().rename({col: as}): one
\* row per group
groupby_mean(table, by, col, as) ==
  LET firsts == drop_duplicates(table, by)
  IN  [g \in 1..Len(firsts) |->
         LET group == SelectSeq(table, LAMBDA r : Cells(r, by) = Cells(firsts[g], by))
         IN  (as :> <<SumOf(group, col), Len(group)>>) @@ Cells(firsts[g], by)]

\* table[by + [col]].groupby(by).first(): one row per group
groupby_first(table, by, col) ==
  LET firsts == drop_duplicates(table, by)
  IN  [g \in 1..Len(firsts) |-> Cells(firsts[g], by \cup {col})]

\* table[col] = table[col].astype(bool): a missing value becomes True
astype_bool_without_fillna(table, col) ==
  [i \in 1..Len(table) |->
     [table[i] EXCEPT ![col] = IF @ = Null THEN TRUE ELSE @[1]]]

\* table[col] = table[col].fillna(False).astype(bool)
fillna_False(table, col) ==
  [i \in 1..Len(table) |->
     [table[i] EXCEPT ![col] = IF @ = Null THEN FALSE ELSE @[1]]]

---------------------------------------------------------------------------
(* Construction: the participant data *)

\* the values read_csv takes for missing (a part of its default list)
NaValues ==
  { <<>>, <<"n", "a", "n">>, <<"N", "a", "N">>, <<"N", "A">>, <<"n", "/", "a">> }

\* read_csv on a text cell
read_csv_cell(text) == IF text \in NaValues THEN NaN ELSE text

\* to_csv on a text cell: a missing value is written as the empty field
to_csv_cell(s) == IF IsNaN(s) THEN <<>> ELSE s

_load_participant_data_from_source(file) ==
  [i \in 1..Len(file) |->
     [file[i] EXCEPT !.Category = read_csv_cell(@), !.Response = read_csv_cell(@)]]

_process_participant_data(participant_data) ==
  LET stripped == [i \in 1..Len(participant_data) |->
                     [participant_data[i] EXCEPT
                        !.Category = str_lower(str_strip(@)),
                        !.Response = str_lower(str_strip(@))]]
  IN  drop_duplicates(sort_values(stripped), {"Category", "Response", "Participant"})

\* list(participant_data[Participant].unique()): in order of first appearance
unique_participants(participant_data) ==
  LET firsts == drop_duplicates(participant_data, {"Participant"})
  IN  [i \in 1..Len(firsts) |-> firsts[i].Participant]

---------------------------------------------------------------------------
(* Construction: the data collapsed over category-response pairs *)

\* individual z-rts outside +/- this limit won't count towards the mean
zrt_outliers_limit == 3

Pair == {"Category", "Response"}

\* the columns of the reaction-time file: MeanRT, MeanZRT, NSyll, PLD,
\* CategoryRT, each joined on the columns the tables share
add_rt_columns(data, rt_data) ==
  LET central_rt_data ==
        SelectSeq(rt_data, LAMBDA r : /\ r.zscore_per_pt <= zrt_outliers_limit
                                      /\ r.zscore_per_pt >= -zrt_outliers_limit)
      d1 == left_merge(data, groupby_mean(rt_data, Pair, "RT", "MeanRT"), Pair, {"MeanRT"})
      d2 == left_merge(d1, groupby_mean(central_rt_data, Pair, "zscore_per_pt", "MeanZRT"),
                       Pair, {"MeanZRT"})
      d3 == left_merge(d2, groupby_first(rt_data, Pair, "NSyll"), Pair, {"NSyll"})
      d4 == left_merge(d3, groupby_first(rt_data, Pair, "PLD"), Pair, {"PLD"})
  IN  left_merge(d4, groupby_first(rt_data, Pair, "CategoryRT"), Pair, {"CategoryRT"})

\* f"Participant {participant} saw category"
saw_category(participant) == "Participant " \o ToString(participant) \o " saw category"

\* f"Participant {participant} response hit"
response_hit(participant) == "Participant " \o ToString(participant) \o " response hit"

\* one turn of "for participant in self.participants"
add_participant_hit_info(data, participant_data, participant) ==
  LET rows == SelectSeq(participant_data, LAMBDA r : r.Participant = participant)
      this_ppt_data ==
        [i \in 1..Len(rows) |->
           (saw_category(participant) :> <<TRUE>>)
             @@ (response_hit(participant) :> <<TRUE>>) @@ rows[i]]
      saw == left_merge(data,
                        groupby_first(this_ppt_data, {"Category"}, saw_category(participant)),
                        {"Category"}, {saw_category(participant)})
      d1  == fillna_False(saw, saw_category(participant))
      hit == left_merge(d1, this_ppt_data, Pair, {response_hit(participant)})
  IN  fillna_False(hit, response_hit(participant))

RECURSIVE add_hit_info(_, _, _)
add_hit_info(data, participant_data, participants) ==
  IF participants = <<>>
    THEN data
    ELSE add_hit_info(add_participant_hit_info(data, participant_data, Head(participants)),
                      participant_data, Tail(participants))

\* data.drop(['Item', 'Participant', 'Trial.no.', 'Rank'], axis=1)
drop_trial_columns(table) ==
  [i \in 1..Len(table) |-> Cells(table[i], (DOMAIN table[i]) \ {"Participant", "Rank"})]

_process_collapsed_data(participant_data, participants, rt_data) ==
  LET pairs == drop_trial_columns(drop_duplicates(participant_data, Pair))
  IN  add_hit_info(add_rt_columns(pairs, rt_data), participant_data, participants)

---------------------------------------------------------------------------
(* Construction: the filter, the label lists and the vocabularies *)

\* comparing a str with a float (NaN) raises TypeError in sorted()
sorted_raises(labels) == NaN \in labels /\ Cardinality(labels) > 1

RECURSIVE sorted(_)
sorted(labels) ==
  IF labels = {} THEN <<>>
  ELSE LET least == CHOOSE x \in labels : \A y \in labels \ {x} : StrLess(x, y)
       IN  <<least>> \o sorted(labels \ {least})

Column(table, col) == {table[i][col] : i \in 1..Len(table)}

Elements(list) == {list[i] : i \in 1..Len(list)}

\* rows with ProdFreq > minimum_production_frequency
frequency_filter_above(table, minimum_production_frequency) ==
  SelectSeq(table, LAMBDA r : r.ProductionFrequency > minimum_production_frequency)

\* rows with ProdFreq >= minimum_production_frequency
frequency_filter(table, minimum_production_frequency) ==
  SelectSeq(table, LAMBDA r : r.ProductionFrequency >= minimum_production_frequency)

\* All single-word tokens in the dataset
single_words(vocabulary_multi_word) ==
  UNION { Elements(_default_word_tokenise(vocab_item)) \ ignored_words :
            vocab_item \in vocabulary_multi_word }

\* the state before any construction, and after one that raised
NoObject ==
  [participant_data |-> <<>>, participants |-> <<>>, data |-> <<>>,
   category_labels |-> <<>>, category_labels_sensorimotor |-> <<>>,
   response_labels |-> <<>>, response_labels_sensorimotor |-> <<>>,
   vocabulary_multi_word |-> {}, vocabulary_single_word |-> {}]

\* __init__ from "Delete rows with minimum production frequency" on: the
\* exception raised ("" when none) and the object
build_labels(unfiltered, cleaned, participants, minimum_production_frequency) ==
  LET data       == frequency_filter(unfiltered, minimum_production_frequency)
      categories == Column(data, "Category")
      categories_sensorimotor == Column(data, "CategorySensorimotor")
      responses  == Column(data, "Response")
      responses_sensorimotor == Column(data, "ResponseSensorimotor")
      multi      == categories \cup responses
  IN  IF \/ sorted_raises(categories) \/ sorted_raises(categories_sensorimotor)
         \/ sorted_raises(responses)  \/ sorted_raises(responses_sensorimotor)
        THEN [raises |-> "TypeError", object |-> NoObject]
      ELSE IF NaN \in multi
        THEN [raises |-> "AttributeError", object |-> NoObject]
      ELSE [raises |-> "",
            object |->
              [participant_data |-> frequency_filter(cleaned, minimum_production_frequency),
               participants     |-> participants,
               data             |-> data,
               category_labels  |-> sorted(categories),
               category_labels_sensorimotor |-> sorted(categories_sensorimotor),
               response_labels  |-> sorted(responses),
               response_labels_sensorimotor |-> sorted(responses_sensorimotor),
               vocabulary_multi_word  |-> multi,
               vocabulary_single_word |-> single_words(multi)]]

---------------------------------------------------------------------------
(* The cache *)

\* a file that does not exist
Absent == [exists |-> FALSE, content |-> <<>>]

File(content) == [exists |-> TRUE, content |-> content]

TextColumns == {"Category", "Response", "CategorySensorimotor", "ResponseSensorimotor"}

\* data.to_csv(cache_file, header=True, index=False): the text columns cell by
\* cell; a number, a mean and a boolean are written in full and read back as
\* they were, and a missing number is the empty field both ways
to_csv(table) ==
  [i \in 1..Len(table) |->
     [col \in DOMAIN table[i] |->
        IF col \in TextColumns THEN to_csv_cell(table[i][col]) ELSE table[i][col]]]

\* read_csv(cached_file, header=0, index_col=False)
read_csv(content) ==
  [i \in 1..Len(content) |->
     [col \in DOMAIN content[i] |->
        IF col \in TextColumns THEN read_csv_cell(content[i][col]) ELSE content[i][col]]]

\* the version of the current code: the hash of HEAD, read with GitPython,
\* or with the git executable when GitPython is not installed; "Unknown" when
\* the executable cannot be started.  Every other failure is not caught.
_cache_version(environment) ==
  IF environment.module
    THEN IF ~environment.executable
           THEN [raises |-> "ImportError", git_hash |-> <<>>]
         ELSE IF ~environment.repository
           THEN [raises |-> "InvalidGitRepositoryError", git_hash |-> <<>>]
         ELSE [raises |-> "", git_hash |-> <<"hexsha", environment.head>>]
    ELSE IF ~environment.executable
           THEN [raises |-> "", git_hash |-> <<"Unknown">>]
         ELSE IF ~environment.repository
           THEN [raises |-> "CalledProcessError", git_hash |-> <<>>]
         ELSE [raises |-> "", git_hash |-> <<"hexsha", environment.head>>]

_could_load_cache(data_file) == data_file.exists

\* the version is computed only when the version file could be opened
_saved_cache_version_valid(version_file, environment) ==
  IF ~version_file.exists
    THEN [raises |-> "", valid |-> FALSE]
    ELSE LET version == _cache_version(environment)
         IN  IF version.raises # ""
               THEN [raises |-> version.raises, valid |-> FALSE]
               ELSE [raises |-> "", valid |-> version_file.content = version.git_hash]

\* remove(cached_data_csv_path) and then remove(cache_version_path), when the
\* data file exists
_clear_saved_cache(data_file, version_file) ==
  IF _could_load_cache(data_file)
    THEN IF version_file.exists
           THEN [raises |-> "", data_file |-> Absent, version_file |-> Absent]
           ELSE [raises |-> "FileNotFoundError", data_file |-> Absent,
                 version_file |-> version_file]
    ELSE [raises |-> "", data_file |-> data_file, version_file |-> version_file]

\* the data file is written, the version file is opened for writing, and then
\* the version is computed and written
_save_cache(data, environment) ==
  LET version == _cache_version(environment)
  IN  IF version.raises # ""
        THEN [raises |-> version.raises, data_file |-> File(to_csv(data)),
              version_file |-> File(<<"">>)]
        ELSE [raises |-> "", data_file |-> File(to_csv(data)),
              version_file |-> File(version.git_hash)]

_load_from_cache(data_file) == read_csv(data_file.content)

---------------------------------------------------------------------------
(* The constructor *)

\* the table is recomputed only when no cached data file could be loaded
produce_from_source_only_without_cache(use_cache, could_load) == ~could_load

\* (not use_cache) or (not CategoryProduction._could_load_cache())
produce_from_source(use_cache, could_load) == (~use_cache) \/ (~could_load)

\* the result of a construction that raised
Raised(exception, data_file, version_file) ==
  [raises |-> exception, object |-> NoObject, data_file |-> data_file,
   version_file |-> version_file, loaded |-> FALSE, aggregated |-> FALSE,
   saved |-> FALSE, cleaned |-> <<>>, unfiltered |-> <<>>]

\* __init__ from "Data for individual participant responses" on, with the
\* cache files as the version check left them
load_and_build(minimum_production_frequency, use_cache, data_file, version_file, environment, main_data, rt_data) ==
  LET participant_data ==
        _process_participant_data(_load_participant_data_from_source(main_data))
      participants == unique_participants(participant_data)
  IN  IF produce_from_source(use_cache, _could_load_cache(data_file))
        THEN LET data  == _process_collapsed_data(participant_data, participants, rt_data)
                 save  == _save_cache(data, environment)
                 built == build_labels(data, participant_data, participants,
                                       minimum_production_frequency)
             IN  IF save.raises # ""
                   THEN [Raised(save.raises, save.data_file, save.version_file)
                           EXCEPT !.aggregated = TRUE, !.cleaned = participant_data,
                                  !.unfiltered = data]
                   ELSE [raises |-> built.raises, object |-> built.object,
                         data_file |-> save.data_file, version_file |-> save.version_file,
                         loaded |-> FALSE, aggregated |-> TRUE, saved |-> TRUE,
                         cleaned |-> participant_data, unfiltered |-> data]
        ELSE LET data  == _load_from_cache(data_file)
                 built == build_labels(data, participant_data, participants,
                                       minimum_production_frequency)
             IN  [raises |-> built.raises, object |-> built.object,
                  data_file |-> data_file, version_file |-> version_file,
                  loaded |-> TRUE, aggregated |-> FALSE, saved |-> FALSE,
                  cleaned |-> participant_data, unfiltered |-> data]

\* CategoryProduction(minimum_production_frequency, use_cache=use_cache), with
\* the default tokeniser: the exception raised ("" when none), the object,
\* and the two cache files as the call leaves them
__init__(minimum_production_frequency, use_cache, data_file, version_file, environment, main_data, rt_data) ==
  LET valid == _saved_cache_version_valid(version_file, environment)
      clear == IF valid.valid
                 THEN [raises |-> "", data_file |-> data_file, version_file |-> version_file]
                 ELSE _clear_saved_cache(data_file, version_file)
  IN  IF valid.raises # ""
        THEN Raised(valid.raises, data_file, version_file)
      ELSE IF clear.raises # ""
        THEN Raised(clear.raises, clear.data_file, clear.version_file)
      ELSE IF minimum_production_frequency < 1
        THEN Raised("ValueError", clear.data_file, clear.version_file)
      ELSE load_and_build(minimum_production_frequency, use_cache, clear.data_file,
                          clear.version_file, environment, main_data, rt_data)

---------------------------------------------------------------------------
(* The queries *)

\* a < b, for two means <<sum, count>>
MeanLess(a, b) == a[1] * b[2] < b[1] * a[2]

\* row a must come after row b in sort_values(by=sort_by, ascending=True):
\* its value is greater, or it is missing (NaN goes last) and b's is not
SortsAfter(a, b, sort_by) ==
  IF sort_by = "ProductionFrequency" THEN b[sort_by] < a[sort_by]
  ELSE IF a[sort_by] = Null THEN b[sort_by] # Null
  ELSE IF b[sort_by] = Null THEN FALSE
  ELSE MeanLess(b[sort_by], a[sort_by])

\* filtered_data.sort_values(by=sort_by, ascending=True): the order of rows
\* with equal values is left to the sorting algorithm, so every ascending
\* arrangement is a possible result
sort_values_by(table, sort_by) ==
  LET n == Len(table)
      arrangements == {f \in [1..n -> 1..n] : \A i, j \in 1..n : i # j => f[i] # f[j]}
  IN  { [i \in 1..n |-> table[f[i]]] :
          f \in {g \in arrangements :
                   \A i, j \in 1..n :
                     i < j => ~SortsAfter(table[g[i]], table[g[j]], sort_by)} }

\* the list as it is
unique_keeping_repeats(ls) == ls

\* list(dict.fromkeys(ls))
unique(ls) ==
  LET keep == {i \in 1..Len(ls) : \A j \in 1..(i - 1) : ls[j] # ls[i]}
  IN  [k \in 1..Cardinality(keep) |->
         ls[CHOOSE i \in keep : Cardinality({j \in keep : j <= i}) = k]]

\* self.responses_for_category(category, single_word_only, sort_by,
\* use_sensorimotor, force_unique) on the object: the exception raised ("" when
\* none) and the lists it can return
responses_for_category(object, category, single_word_only, sort_by, use_sensorimotor, force_unique) ==
  LET labels == IF use_sensorimotor
                  THEN object.category_labels_sensorimotor
                  ELSE object.category_labels
      category_column == IF use_sensorimotor THEN "CategorySensorimotor" ELSE "Category"
      response_column == IF use_sensorimotor THEN "ResponseSensorimotor" ELSE "Response"
      filtered_data == SelectSeq(object.data, LAMBDA r : r[category_column] = category)
      Responses(sorted_data) ==
        LET column == [i \in 1..Len(sorted_data) |-> sorted_data[i][response_column]]
            responses == IF single_word_only
                           THEN SelectSeq(column, LAMBDA r : ~HasSpace(r))
                           ELSE column
        IN  IF use_sensorimotor /\ force_unique THEN unique(responses) ELSE responses
  IN  IF category \notin Elements(labels)
        THEN [raises |-> "CategoryNotFoundError", returns |-> {}]
        ELSE [raises |-> "",
              returns |-> {Responses(sorted_data) :
                             sorted_data \in sort_values_by(filtered_data, sort_by)}]

\* self.data_for_category_response_pair(category, response, col_name)
data_for_category_response_pair(object, category, response, col_name) ==
  LET responses == responses_for_category(object, category, FALSE, "MeanRank", FALSE, FALSE)
      filtered_data == SelectSeq(object.data, LAMBDA r : /\ r.Category = category
                                                         /\ r.Response = response)
  IN  IF category \notin Elements(object.category_labels)
        THEN [raises |-> "CategoryNotFoundError", returns |-> Null]
      ELSE IF \A ls \in responses.returns : response \notin Elements(ls)
        THEN [raises |-> "ResponseNotFoundError", returns |-> Null]
      ELSE [raises |-> "", returns |-> <<filtered_data[1][col_name]>>]

---------------------------------------------------------------------------
(* The state *)

VARIABLES
  master_main_data_csv,  \* the file at Preferences.master_main_data_csv_path
  master_rt_data_csv,    \* the file at Preferences.master_rt_data_csv_path
  environment,      \* what the version lookup finds: GitPython, git, a repository, HEAD
  cached_data_csv,  \* the file at Preferences.cached_data_csv_path
  cache_version,    \* the file at Preferences.cache_version_path
  cp,               \* the CategoryProduction object of the last construction
  call,             \* the last construction: its arguments, the files and the
                    \* environment it found, what it raised, and its tables
                    \* before the frequency filter
  saved_table       \* the table most lately written to the cached data file

vars == <<master_main_data_csv, master_rt_data_csv, environment, cached_data_csv,
         cache_version, cp, call, saved_table>>

\* GitPython, git and a repository are there
GitWorks == [module |-> TRUE, executable |-> TRUE, repository |-> TRUE, head |-> 1]

NoCall ==
  [raises |-> "none", minimum_production_frequency |-> 0, use_cache |-> FALSE,
   found_data |-> Absent, found_version |-> Absent,
   environment |-> GitWorks, loaded |-> FALSE,
   aggregated |-> FALSE, saved |-> FALSE, cleaned |-> <<>>, unfiltered |-> <<>>]

\* cp = CategoryProduction(minimum_production_frequency, use_cache=use_cache)
Construct(minimum_production_frequency, use_cache) ==
  LET r == __init__(minimum_production_frequency, use_cache, cached_data_csv,
                    cache_version, environment, master_main_data_csv,
                    master_rt_data_csv)
  IN  /\ cp' = r.object
      /\ cached_data_csv' = r.data_file
      /\ cache_version' = r.version_file
      /\ call' = [raises |-> r.raises,
                  minimum_production_frequency |-> minimum_production_frequency,
                  use_cache |-> use_cache,
                  found_data |-> cached_data_csv, found_version |-> cache_version,
                  environment |-> environment,
                  loaded |-> r.loaded, aggregated |-> r.aggregated,
                  saved |-> r.saved,
                  cleaned |-> r.cleaned, unfiltered |-> r.unfiltered]
      /\ saved_table' = IF r.aggregated THEN r.unfiltered ELSE saved_table
      /\ UNCHANGED <<master_main_data_csv, master_rt_data_csv, environment>>

\* a new revision is checked out, where git can read a repository: HEAD moves
Checkout ==
  /\ environment.executable
  /\ environment.repository
  /\ environment.head < MaxHead
  /\ environment' = [environment EXCEPT !.head = @ + 1]
  /\ UNCHANGED <<master_main_data_csv, master_rt_data_csv, cached_data_csv, cache_version,
                 cp, call, saved_table>>

\* the participant data the code computes from the main data file
CleanedTable(main_data) ==
  _process_participant_data(_load_participant_data_from_source(main_data))

\* the table the code computes from the source files
FreshTable(main_data, rt_data) ==
  _process_collapsed_data(CleanedTable(main_data),
                          unique_participants(CleanedTable(main_data)), rt_data)

\* the source files written from a set of trial rows
SourceFiles(rows) ==
  /\ master_main_data_csv = MainDataFile(rows)
  /\ master_rt_data_csv = RtDataFile(rows)

\* with or without GitPython, the git executable, and a repository around
\* the working directory (of no account when there is no executable)
Environments ==
  {e \in [module : BOOLEAN, executable : BOOLEAN, repository : BOOLEAN, head : {1}] :
     ~e.executable => e.repository}

\* the source files of the cache runs: at most two rows, one cue, one
\* participant, and a response that is
\* lower-cased to a word read_csv takes for missing
CacheSources == Sources(2, {<<"f">>}, {<<"x">>, <<"N", "a", "n">>}, {1})

\* A version file left by an earlier run: of an older revision, of HEAD, or
\* of a run that could not find its version.  A data file left by an earlier
\* run holds the table of the revision that wrote it: the table of HEAD when
\* the version file names HEAD, and otherwise this table or an older one
\* (here the table without rows).
Init ==
  /\ \E rows \in CacheSources : SourceFiles(rows)
  /\ environment \in Environments
  /\ cache_version \in {Absent, File(<<"hexsha", 0>>), File(<<"hexsha", 1>>),
                        File(<<"Unknown">>)}
  /\ \E table \in {FreshTable(master_main_data_csv, master_rt_data_csv), <<>>} :
       \/ cached_data_csv = Absent /\ saved_table = <<>>
       \/ cached_data_csv = File(to_csv(table)) /\ saved_table = table
  /\ LET version == _cache_version(environment)
     IN  (cache_version.exists /\ version.raises = ""
            /\ cache_version.content = version.git_hash /\ cached_data_csv.exists)
           => cached_data_csv =
                File(to_csv(FreshTable(master_main_data_csv, master_rt_data_csv)))
  /\ cp = NoObject
  /\ call = NoCall

\* every response of the cache runs has production frequency 1: a threshold
\* is invalid (0), keeps every row (1) or keeps none (2)
CacheThresholds == {0, 1, 2}

Next ==
  \/ \E m \in CacheThresholds, use_cache \in BOOLEAN : Construct(m, use_cache)
  \/ Checkout

Spec == Init /\ [][Next]_vars

\* The data runs: several participants, cues and responses written with
\* capitals and spaces around them, no cache at the start, a working git
DataSources ==
  Sources(MaxRows, {<<"F", " ">>, <<"a", " ", "g">>}, {<<"x">>, <<" ", "X">>}, 1..MaxRows)

InitData ==
  /\ \E rows \in DataSources : SourceFiles(rows)
  /\ environment = GitWorks
  /\ cache_version = Absent
  /\ cached_data_csv = Absent
  /\ cp = NoObject
  /\ call = NoCall
  /\ saved_table = <<>>

NextData == \E m \in 1..MaxMinFreq, use_cache \in BOOLEAN : Construct(m, use_cache)

SpecData == InitData /\ [][NextData]_vars

\* The query runs: one participant, a category and responses of several
\* words, a response with a tab, and responses that share a sensorimotor term
QuerySources ==
  Sources(MaxRows, {<<"f">>, <<"a", " ", "g">>}, {<<"x">>, <<"a", " ", "x">>, <<"x", "\t", "y">>}, {1})

InitQuery ==
  /\ \E rows \in QuerySources : SourceFiles(rows)
  /\ environment = GitWorks
  /\ cache_version = Absent
  /\ cached_data_csv = Absent
  /\ cp = NoObject
  /\ call = NoCall
  /\ saved_table = <<>>

SpecQuery == InitQuery /\ [][NextData]_vars

\* The hit runs: several participants, two categories and two responses
HitSources == Sources(MaxRows, {<<"f">>, <<"g">>}, {<<"x">>, <<"y">>}, 1..MaxRows)

InitHit ==
  /\ \E rows \in HitSources : SourceFiles(rows)
  /\ environment = GitWorks
  /\ cache_version = Absent
  /\ cached_data_csv = Absent
  /\ cp = NoObject
  /\ call = NoCall
  /\ saved_table = <<>>

SpecHit == InitHit /\ [][NextData]_vars

---------------------------------------------------------------------------
(* Properties *)

\* a construction has been made and did not raise
Succeeded == call.raises = ""

PairOf(row) == <<row.Category, row.Response>>

PairsOf(table) == {PairOf(table[i]) : i \in 1..Len(table)}

Rows(table) == {table[i] : i \in 1..Len(table)}

\* the pairs of the cleaned participant rows whose production frequency
\* reaches the threshold of the last construction
IncludedPairs ==
  {PairOf(r) : r \in {x \in Rows(call.cleaned) :
                        x.ProductionFrequency >= call.minimum_production_frequency}}

\* the reaction-time rows of a pair
RtRowsOf(row) ==
  {r \in Rows(master_rt_data_csv) : r.Category = row.Category /\ r.Response = row.Response}

\* C1: after a successful construction, from source or from the cache, the
\* table has exactly one row per category-response pair: its pairs are the
\* pairs of the cleaned participant rows with production frequency at least
\* the threshold, no two rows share a pair, no join added or removed a row of
\* the collapsed table, and a pair without reaction-time rows is there with
\* missing values in the reaction-time columns.
C1_OneRowPerPair ==
  Succeeded =>
    /\ PairsOf(cp.data) = IncludedPairs
    /\ Len(cp.data) = Cardinality(PairsOf(cp.data))
    /\ Len(call.unfiltered) = Cardinality(PairsOf(call.cleaned))
    /\ \A row \in Rows(cp.data) :
         /\ (row.MeanRT = Null) <=> (RtRowsOf(row) = {})
         /\ (row.NSyll = Null) <=> (RtRowsOf(row) = {})
         /\ (row.PLD = Null) <=> (RtRowsOf(row) = {})
         /\ (row.CategoryRT = Null) <=> (RtRowsOf(row) = {})
         /\ (RtRowsOf(row) = {}) => row.MeanZRT = Null

\* a table loaded from the cache with a pair that has reaction times, a pair
\* that has none, and two participant rows
C1_Witness ==
  /\ Succeeded
  /\ call.loaded
  /\ Len(call.cleaned) > 1
  /\ \E row \in Rows(cp.data) : row.MeanRT = Null
  /\ \E row \in Rows(cp.data) : row.MeanRT # Null

---------------------------------------------------------------------------
(* The cache, as the last construction found it *)

\* a construction has been made
Called == call.raises # "none"

\* the fingerprint of the code at the last construction
CurrentFingerprint == _cache_version(call.environment)

\* the last construction found a fingerprint file that holds the fingerprint
\* of the code
FingerprintMatched ==
  /\ call.found_version.exists
  /\ CurrentFingerprint.raises = ""
  /\ call.found_version.content = CurrentFingerprint.git_hash

\* the last construction had a valid threshold and could determine the
\* fingerprint of the code
WellPosed ==
  /\ Called
  /\ call.minimum_production_frequency >= 1
  /\ CurrentFingerprint.raises = ""

\* C2: a construction with cache usage enabled that finds the cached data
\* file and the fingerprint of the current code loads the table, and the
\* table it loads is equal to the table that was saved; a construction that
\* finds another fingerprint, or no fingerprint file, never loads the cached
\* table, and when it succeeds it has recomputed the table from source.
C2_CacheRoundTrip ==
  WellPosed =>
    /\ (call.use_cache /\ FingerprintMatched /\ call.found_data.exists) => call.loaded
    /\ call.loaded => call.unfiltered = saved_table
    /\ ~FingerprintMatched => ~call.loaded
    /\ (~FingerprintMatched /\ Succeeded) => call.aggregated

\* C3: whatever cache files a construction finds, a fingerprint file that
\* is missing or holds another fingerprint, and a missing data file, are not
\* errors: the construction succeeds, having recomputed the table from
\* source, and every cache file it leaves behind belongs to the fingerprint
\* of the current code.
C3_NoCacheError ==
  WellPosed =>
    /\ (~FingerprintMatched \/ ~call.found_data.exists) => (Succeeded /\ call.aggregated)
    /\ cache_version.exists => cache_version.content = CurrentFingerprint.git_hash
    /\ cached_data_csv.exists => cache_version.exists

\* C4, as stated: a construction with cache usage disabled aggregates from
\* source, does not load the cached table, and writes no cache file: a
\* file that is there afterwards is the file that was there before.
C4_DisabledWritesNothing ==
  (Called /\ ~call.use_cache) =>
    /\ ~call.loaded
    /\ Succeeded => call.aggregated
    /\ cached_data_csv.exists => cached_data_csv = call.found_data
    /\ cache_version.exists => cache_version = call.found_version

\* C4, amended: a construction with cache usage disabled never loads the
\* cached table and, when it succeeds, has aggregated from source; every
\* aggregation from source, with cache usage disabled or enabled, writes the
\* table to the cached data file and writes the fingerprint file (with the
\* fingerprint, when the construction succeeds); a construction that does
\* not aggregate writes no cache file; and the table is loaded or
\* aggregated exactly as the flag and the cached data file say.
C4_EveryAggregationWrites ==
  Called =>
    /\ ~call.use_cache => (~call.loaded /\ (Succeeded => call.aggregated))
    /\ call.loaded => (call.use_cache /\ call.found_data.exists)
    /\ call.aggregated =>
         /\ cached_data_csv = File(to_csv(call.unfiltered))
         /\ cache_version.exists
         /\ Succeeded => cache_version = File(CurrentFingerprint.git_hash)
    /\ ~call.aggregated =>
         /\ cached_data_csv.exists => cached_data_csv = call.found_data
         /\ cache_version.exists => cache_version = call.found_version

\* a construction with cache usage disabled found a loadable cache of the
\* current code and wrote the cache files again
C4_Witness ==
  /\ Succeeded
  /\ ~call.use_cache
  /\ FingerprintMatched
  /\ call.found_data.exists
  /\ call.aggregated
  /\ Len(call.unfiltered) > 0
  /\ cached_data_csv = File(to_csv(call.unfiltered))

\* the exceptions of a version lookup that fails
VersionLookupErrors == {"ImportError", "InvalidGitRepositoryError", "CalledProcessError"}

\* C9: the fingerprint is the version of the current code, or the sentinel
\* "Unknown" whenever the version lookup fails: no construction aborts
\* because the version cannot be determined, and the fingerprint a successful
\* aggregation writes is the hash of HEAD when GitPython or git can read it
\* and the sentinel otherwise.
C9_FingerprintFallsBack ==
  Called =>
    /\ call.raises \notin VersionLookupErrors
    /\ (Succeeded /\ call.aggregated) =>
         cache_version.content =
           IF call.environment.executable /\ call.environment.repository
             THEN <<"hexsha", call.environment.head>>
             ELSE <<"Unknown">>

\* what the last construction would have been with cache usage disabled
WithoutCache ==
  __init__(call.minimum_production_frequency, FALSE, call.found_data, call.found_version,
           call.environment, master_main_data_csv, master_rt_data_csv)

\* C10: under one fingerprint and unchanged source files, a construction
\* with cache usage enabled and threshold m >= 1 yields what a construction
\* with cache usage disabled and threshold m yields: it succeeds when that
\* one does, with the same table, label lists and vocabularies, whatever
\* the threshold of the construction that wrote the cache.
C10_CacheIndependentOfThreshold ==
  (WellPosed /\ call.use_cache) =>
    /\ call.raises = WithoutCache.raises
    /\ cp = WithoutCache.object

---------------------------------------------------------------------------
(* The participant rows and the filter *)

\* the rows of the main data file
RawRows == Rows(master_main_data_csv)

\* the category, the response and the participant of a trial, normalised
TripleOf(row) == <<Normalise(row.Category), Normalise(row.Response), row.Participant>>

\* the ranks the main data file gives for the triple of a row
RanksOf(row) == {r.Rank : r \in {x \in RawRows : TripleOf(x) = TripleOf(row)}}

\* C5: the participant table has exactly one row for every triple of
\* normalised category, normalised response and participant that the main
\* data file holds, and no other row; the row carries the lowest rank the
\* file gives for its triple, as the file gives it; rows of different
\* participants for one pair are all there, and the aggregated table has
\* one row for each pair of the participant table.
C5_LowestRankKept ==
  Succeeded =>
    /\ {TripleOf(r) : r \in Rows(call.cleaned)} = {TripleOf(r) : r \in RawRows}
    /\ Len(call.cleaned) = Cardinality({TripleOf(r) : r \in RawRows})
    /\ \A row \in Rows(call.cleaned) :
         /\ row.Category = Normalise(row.Category)
         /\ row.Response = Normalise(row.Response)
         /\ row.Rank \in RanksOf(row)
         /\ \A rank \in RanksOf(row) : row.Rank <= rank
    /\ \A raw \in RawRows :
         \E row \in Rows(call.cleaned) :
           PairOf(row) = <<Normalise(raw.Category), Normalise(raw.Response)>>
             /\ row.Participant = raw.Participant
    /\ PairsOf(call.unfiltered) = PairsOf(call.cleaned)
    /\ Len(call.unfiltered) = Cardinality(PairsOf(call.cleaned))

\* a participant gave one response twice, written in two ways, and the
\* later one was dropped
C5_Witness ==
  /\ Succeeded
  /\ Len(master_main_data_csv) = 2
  /\ Len(call.cleaned) = 1
  /\ master_main_data_csv[1].Response # master_main_data_csv[2].Response
  /\ master_main_data_csv[1].Rank = 2
  /\ call.cleaned[1].Rank = 1

\* the rows of the aggregated table that reach the threshold of the last
\* construction
Included ==
  {r \in Rows(call.unfiltered) :
     r.ProductionFrequency >= call.minimum_production_frequency}

\* the rows of the aggregated table below the threshold
Excluded == Rows(call.unfiltered) \ Included

\* the responses that responses_for_category can return for a category
Returned(category, use_sensorimotor) ==
  UNION {Elements(ls) :
           ls \in responses_for_category(cp, category, FALSE, "MeanRank",
                                           use_sensorimotor, FALSE).returns}

\* C6: after a construction with threshold m >= 1, a pair with production
\* frequency m or more is in the table and in the results of the queries,
\* and a pair with production frequency below m is in none: the table, the
\* four label lists and the two vocabularies are made of the pairs that
\* reach m only, responses_for_category returns no response of a pair below
\* m, and data_for_category_response_pair raises a not-found error for it.
C6_MinimumFrequencyFilter ==
  (Succeeded /\ call.minimum_production_frequency >= 1) =>
    /\ Rows(cp.data) = Included
    /\ Elements(cp.category_labels) = {r.Category : r \in Included}
    /\ Elements(cp.response_labels) = {r.Response : r \in Included}
    /\ Elements(cp.category_labels_sensorimotor) = {r.CategorySensorimotor : r \in Included}
    /\ Elements(cp.response_labels_sensorimotor) = {r.ResponseSensorimotor : r \in Included}
    /\ cp.vocabulary_multi_word = {r.Category : r \in Included} \cup {r.Response : r \in Included}
    /\ cp.vocabulary_single_word =
         UNION {Elements(_default_word_tokenise(item)) \ ignored_words :
                  item \in {r.Category : r \in Included} \cup {r.Response : r \in Included}}
    /\ \A r \in Included :
         /\ r.Response \in Returned(r.Category, FALSE)
         /\ r.ResponseSensorimotor \in Returned(r.CategorySensorimotor, TRUE)
         /\ data_for_category_response_pair(cp, r.Category, r.Response, "ProductionFrequency")
              = [raises |-> "", returns |-> <<r.ProductionFrequency>>]
    /\ \A r \in Excluded :
         /\ r.Response \in Returned(r.Category, FALSE)
              => \E i \in Included : PairOf(i) = PairOf(r)
         /\ r.ResponseSensorimotor \in Returned(r.CategorySensorimotor, TRUE)
              => \E i \in Included : /\ i.CategorySensorimotor = r.CategorySensorimotor
                                      /\ i.ResponseSensorimotor = r.ResponseSensorimotor
         /\ data_for_category_response_pair(cp, r.Category, r.Response, "ProductionFrequency").raises
              \in {"CategoryNotFoundError", "ResponseNotFoundError"}

\* with threshold 2, a pair that two participants gave is in the table
C6_Witness ==
  /\ Succeeded
  /\ call.minimum_production_frequency = 2
  /\ Len(call.unfiltered) = 1
  /\ \E r \in Rows(cp.data) : r.ProductionFrequency = 2

---------------------------------------------------------------------------
(* responses_for_category *)

\* the categories asked for: the labels of the query runs, and two terms
\* that are never labels
QueryCategories == {<<"f">>, <<"g">>, <<"a", " ", "g">>, <<"x">>}

QuerySortColumns == {"MeanRank", "ProductionFrequency", "MeanRT"}

\* the rows of the table whose category, or sensorimotor category, is the
\* one asked for
Matching(category, use_sensorimotor) ==
  {r \in Rows(cp.data) :
     (IF use_sensorimotor THEN r.CategorySensorimotor ELSE r.Category) = category}

ResponseOf(row, use_sensorimotor) ==
  IF use_sensorimotor THEN row.ResponseSensorimotor ELSE row.Response

\* the value of a in the sort column is not above the value of b; a missing
\* value is above every other
NotAbove(a, b, sort_by) ==
  IF sort_by = "ProductionFrequency"
    THEN a.ProductionFrequency <= b.ProductionFrequency
    ELSE \/ b[sort_by] = Null
         \/ a[sort_by] # Null /\ a[sort_by][1] * b[sort_by][2] <= b[sort_by][1] * a[sort_by][2]

\* a character that makes a response more than one word: any whitespace,
\* or the space only
Separates(char, any_whitespace) == IF any_whitespace THEN IsSpace(char) ELSE char = " "

OneWord(response, any_whitespace) ==
  \A k \in 1..Len(response) : ~Separates(response[k], any_whitespace)

FirstSeen(list, entry) == CHOOSE i \in 1..Len(list) : list[i] = entry /\ \A j \in 1..(i - 1) : list[j] # entry

\* what C7 says of one list that responses_for_category can return
ListAsClaimed(ls, category, single_word_only, sort_by, use_sensorimotor, force_unique, any_whitespace) ==
  LET rows == Matching(category, use_sensorimotor)
      kept == {r \in rows : single_word_only
                               => OneWord(ResponseOf(r, use_sensorimotor), any_whitespace)}
      plain == responses_for_category(cp, category, single_word_only, sort_by,
                                      use_sensorimotor, FALSE).returns
  IN  /\ Elements(ls) = {ResponseOf(r, use_sensorimotor) : r \in kept}
      /\ \E f \in [1..Len(ls) -> kept] :
           /\ \A i \in 1..Len(ls) : ResponseOf(f[i], use_sensorimotor) = ls[i]
           /\ \A i, j \in 1..Len(ls) : i < j => NotAbove(f[i], f[j], sort_by)
      /\ ~(use_sensorimotor /\ force_unique) => Len(ls) = Cardinality(kept)
      /\ force_unique =>
           /\ \A i, j \in 1..Len(ls) : i # j => ls[i] # ls[j]
           /\ \E full \in plain :
                /\ Elements(full) = Elements(ls)
                /\ \A i, j \in 1..Len(ls) :
                     i < j => FirstSeen(full, ls[i]) < FirstSeen(full, ls[j])
      /\ single_word_only => \A i \in 1..Len(ls) : OneWord(ls[i], any_whitespace)

\* what C7 says of every call of responses_for_category on the object
QueriesAsClaimed(any_whitespace) ==
  \A category \in QueryCategories, sort_by \in QuerySortColumns,
     single_word_only \in BOOLEAN, use_sensorimotor \in BOOLEAN, force_unique \in BOOLEAN :
    LET q == responses_for_category(cp, category, single_word_only, sort_by,
                                    use_sensorimotor, force_unique)
        labels == IF use_sensorimotor THEN {r.CategorySensorimotor : r \in Rows(cp.data)}
                                      ELSE {r.Category : r \in Rows(cp.data)}
    IN  IF category \notin labels
          THEN q.raises = "CategoryNotFoundError"
          ELSE /\ q.raises = ""
               /\ q.returns # {}
               /\ \A ls \in q.returns :
                    ListAsClaimed(ls, category, single_word_only, sort_by,
                                  use_sensorimotor, force_unique, any_whitespace)

\* C7, as stated: responses_for_category raises CategoryNotFoundError for
\* a category that is not in the relevant label list, and otherwise returns
\* the responses of the rows of that category in ascending order of the sort
\* column, without repeats and in first-seen order when force_unique is set,
\* and without any response that has whitespace inside when single_word_only
\* is set.
C7_NoInternalWhitespace == Succeeded => QueriesAsClaimed(TRUE)

\* C7, amended: the same, where single_word_only leaves out the responses
\* that have a space character inside, and no other.
C7_NoSpaceCharacter == Succeeded => QueriesAsClaimed(FALSE)

\* a category with two responses of one sensorimotor term, one of them of
\* two words: force_unique gives one entry, single_word_only one response
C7_Witness ==
  /\ Succeeded
  /\ Cardinality(Matching(<<"f">>, TRUE)) = 2
  /\ \A ls \in responses_for_category(cp, <<"f">>, FALSE, "MeanRank", TRUE, TRUE).returns :
       Len(ls) = 1
  /\ \A ls \in responses_for_category(cp, <<"f">>, TRUE, "MeanRank", FALSE, FALSE).returns :
       Len(ls) = 1
  /\ \A ls \in responses_for_category(cp, <<"f">>, FALSE, "MeanRank", FALSE, FALSE).returns :
       Len(ls) = 2 /\ ls[1] = <<"x">>

---------------------------------------------------------------------------
(* The hit columns *)

\* the participants of the cleaned participant rows
KnownParticipants == {r.Participant : r \in Rows(call.cleaned)}

\* the participant has a cleaned row for the category
SawCategory(p, category) ==
  \E r \in Rows(call.cleaned) : r.Participant = p /\ r.Category = category

\* the participant has a cleaned row for the pair
ResponseHit(p, category, response) ==
  \E r \in Rows(call.cleaned) :
    r.Participant = p /\ r.Category = category /\ r.Response = response

\* C8: in every row of the aggregated table, and of the table that is kept
\* after the filter, and for every participant of the cleaned rows, the
\* column "Participant p saw category" is true when p has a cleaned row for
\* the category of the row and false when not, and "Participant p response
\* hit" is true when p has a cleaned row for the pair of the row and false
\* when not: both are booleans, never a missing value.
C8_HitColumns ==
  Succeeded =>
    /\ Elements(cp.participants) = KnownParticipants
    /\ \A row \in Rows(call.unfiltered) \cup Rows(cp.data) :
         \A p \in KnownParticipants :
           /\ saw_category(p) \in DOMAIN row
           /\ response_hit(p) \in DOMAIN row
           /\ row[saw_category(p)] = SawCategory(p, row.Category)
           /\ row[response_hit(p)] = ResponseHit(p, row.Category, row.Response)

\* participant 1 has a row for f and x and none for f and y: the row of
\* f and y says that 1 saw the category and did not give the response
C8_Witness ==
  /\ Succeeded
  /\ \E row \in Rows(cp.data) :
       /\ row.Category = <<"f">>
       /\ row.Response = <<"y">>
       /\ row[saw_category(1)] = TRUE
       /\ row[response_hit(1)] = FALSE
       /\ row[response_hit(2)] = TRUE
  /\ ResponseHit(1, <<"f">>, <<"x">>)

---------------------------------------------------------------------------
(* The invalid threshold *)

\* C11: a construction that raises ValueError for a threshold below 1
\* leaves the cache as it found it: the cached data file and the
\* fingerprint file are the same after the call as before it.
C11_InvalidArgumentLeavesCache ==
  call.raises = "ValueError" =>
    /\ cached_data_csv = call.found_data
    /\ cache_version = call.found_version

====
